---- MODULE Spec2Model ----
(***************************************************************************)
(* Gemverse casino: the request handlers that settle wagers and manage     *)
(* roles, modelled over the stored tables (user, session, bet, adminLog).  *)
(* Every handler is a sequence of awaited storage calls; each awaited call *)
(* is one atomic step, and steps of different requests interleave.         *)
(***************************************************************************)
EXTENDS Integers, Sequences, FiniteSets, TLC

\* ---------------------------------------------------------------- bounds
\* Number of requests that can be in flight at once.
MaxProcs == 2
\* Number of requests issued in one behaviour of the wager specifications.
MaxRequests == 3
\* Number of requests issued in one behaviour of the account specifications.
MaxRoleRequests == 2
\* Number of the seed script's sample players that are created.
SeedPlayers == 1
\* Number of grid games started on the mines page in one behaviour.
MaxGames == 2

\* ------------------------------------------------------ program constants
\* OWNER_CONFIG.initialGems / initialCrystals
InitialGems == 1000000
InitialCrystals == 10000
\* calculateStartingStats: gems of a user that is not the first one
StartingGems == 1000
\* bet validation: amount < 1 || amount > 100000
MinBet == 1
MaxBet == 100000
\* seed script: the sample admin account
AdminSeedGems == 50000
AdminSeedCrystals == 1000
\* mines page: slider ranges, initial settings, initial bet, multiplier cap
MinGridSize == 3
MaxGridSize == 8
MinMines == 1
DefaultGridSize == 5
DefaultMineCount == 5
DefaultBet == 100
MaxMultiplier == 1000

VARIABLES
    users,      \* user table: sequence indexed by user_id (autoincrement)
    sessions,   \* session table: set of [session_token, user_id, expired]
    bets,       \* bet table: sequence indexed by bet_id
    adminLog,   \* adminLog table: set of [admin_id, action, target_id]
    procs,      \* requests in flight, and the last response of each slot
    quota,      \* number of requests that may still be issued
    gridSize,   \* mines page: the grid-size setting
    mineCount,  \* mines page: the mine-count setting
    gameState,  \* mines page: the game of the page
    toast,      \* mines page: the last toast shown
    crashPage   \* crash page: clock, timer, round, bets and game loop

vars == <<users, sessions, bets, adminLog, procs, quota,
          gridSize, mineCount, gameState, toast, crashPage>>

\* the state of the pages, untouched by the request handlers
pageVars == <<gridSize, mineCount, gameState, toast, crashPage>>

Procs == 1..MaxProcs
Roles == {"OWNER", "ADMIN", "PLAYER"}
NoToken == 0
\* serverSeed: '' (no game started, no seed sent)
NoSeed == 0
Idle == [kind |-> "idle"]

\* seed script: samplePlayers (gems of player1..player3)
SamplePlayerGems == <<5000, 7500, 3200>>

User(role, gems, crystals) ==
    [role |-> role, is_banned |-> FALSE, gems |-> gems, crystals |-> crystals]

\* Names and passwords are sequences of one-character strings.
UpperCase == <<"A", "B", "C", "D", "E", "F", "G", "H", "I", "J", "K", "L", "M",
               "N", "O", "P", "Q", "R", "S", "T", "U", "V", "W", "X", "Y", "Z">>
LowerCase == <<"a", "b", "c", "d", "e", "f", "g", "h", "i", "j", "k", "l", "m",
               "n", "o", "p", "q", "r", "s", "t", "u", "v", "w", "x", "y", "z">>
Digits == <<"0", "1", "2", "3", "4", "5", "6", "7", "8", "9">>
Range(seq) == {seq[i] : i \in DOMAIN seq}

\* String.prototype.toLowerCase
ToLowerCase(str) ==
    [i \in DOMAIN str |->
        IF \E k \in DOMAIN UpperCase : UpperCase[k] = str[i]
        THEN LowerCase[CHOOSE k \in DOMAIN UpperCase : UpperCase[k] = str[i]]
        ELSE str[i]]

\* bcrypt.hash(password, 12) and bcrypt.compare(password, hash)
BcryptHash(password) == [algorithm |-> "bcrypt", rounds |-> 12, of |-> password]
BcryptCompare(password, hash) == hash = BcryptHash(password)

Account(username, password, user) ==
    user @@ [username |-> username, password_hash |-> BcryptHash(password)]

\* seed script: a generated owner name, 'admin', the sample players' names,
\* and a password generateSecurePassword can produce
OwnerUsername == <<"m", "a", "s", "t", "e", "r", "o", "r", "a", "c", "l", "e">>
AdminUsername == <<"a", "d", "m", "i", "n">>
PlayerUsername(i) == <<"p", "l", "a", "y", "e", "r", Digits[i + 1]>>
SeedPassword == <<"S", "e", "e", "d", "P", "a", "s", "s", "w", "0", "r", "d", "1", "2", "3", "4">>

\* The accounts the seed script creates: owner, admin, sample players.
SeedUsers ==
    <<Account(OwnerUsername, SeedPassword,
              User("OWNER", InitialGems, InitialCrystals)),
      Account(AdminUsername, SeedPassword,
              User("ADMIN", AdminSeedGems, AdminSeedCrystals))>>
    \o [i \in 1..SeedPlayers |->
           Account(PlayerUsername(i), SeedPassword,
                   User("PLAYER", SamplePlayerGems[i], 0))]

\* login: one session per account, token = a fresh value (here the user_id)
LoginSession(u) == [session_token |-> u, user_id |-> u, expired |-> FALSE]

UserIds == 1..Len(users)
Exists(u) == u \in UserIds

\* ------------------------------------------------------------- requests
FreeSlot(p) == procs[p].kind \in {"idle", "done"}
\* A new request takes the lowest free slot (slots carry no meaning).
CanStart(p) ==
    /\ quota > 0
    /\ FreeSlot(p)
    /\ \A q \in Procs : q < p => ~FreeSlot(q)

Response(handler, status, ref) ==
    [kind |-> "done", handler |-> handler, status |-> status, ref |-> ref]

\* A handler step rewrites its slot; it never touches the browser page.
Set(p, r) == procs' = [procs EXCEPT ![p] = r] /\ UNCHANGED pageVars

\* session lookup: prisma.session.findUnique + the expiry test
SessionValid(token) ==
    \E s \in sessions : s.session_token = token /\ ~s.expired

SessionUser(token) ==
    (CHOOSE s \in sessions : s.session_token = token).user_id

Tokens == {NoToken} \cup {s.session_token : s \in sessions}

\* First step of every session-gated handler.
Begin(p, handler, token, locals) ==
    /\ CanStart(p)
    /\ quota' = quota - 1
    /\ IF SessionValid(token)
       THEN Set(p, [kind |-> handler, pc |-> "user", token |-> token,
                    user_id |-> SessionUser(token)] @@ locals)
       ELSE Set(p, Response(handler, 401, token))
    /\ UNCHANGED <<users, sessions, bets, adminLog>>

At(p, handler, pc) == procs[p].kind = handler /\ procs[p].pc = pc

\* ---------------------------------------------------------------- wagers
BetAmounts == {0, 3001, MaxBet + 1}
\* Multipliers are JSON numbers of the request body: here -1 and 3/2.
Multiplier(num, den) == [num |-> num, den |-> den]
Multipliers == {Multiplier(-1, 1), Multiplier(3, 2)}
RoundIds == {1}

\* if (amount < 1 || amount > 100000) -> 400
BetAmountValid(amount) == ~(amount < MinBet \/ amount > MaxBet)

\* if (user.gems < BigInt(amount)) -> 400
SufficientGems(gems, amount) == ~(gems < amount)

\* Math.floor(amount * multiplier)
Winnings(amount, mult) == (amount * mult.num) \div mult.den

BetNeverChecked(bet) == TRUE

\* if (outcome.status !== 'active') -> 400
BetIsActive(bet) == bet.status = "active"

Bet(uid, game, amount, status, profit, round) ==
    [user_id |-> uid, game |-> game, amount |-> amount, status |-> status,
     profit |-> profit, round_id |-> round, server_seed |-> NoSeed]

\* if (!user || user.is_banned) -> 403
UserAllowed(uid) == Exists(uid) /\ ~users[uid].is_banned

\* an error answer with its message
ErrorResponse(handler, e) == Response(handler, e.status, 0) @@ [error |-> e.error]

NoError == [status |-> 200, error |-> ""]

PlacementChecksBalanceFirst(uid, amount) ==
    IF ~UserAllowed(uid)
    THEN [status |-> 403, error |-> "User not found or banned"]
    ELSE IF ~SufficientGems(users[uid].gems, amount)
    THEN [status |-> 400, error |-> "Insufficient gems"]
    ELSE IF ~BetAmountValid(amount)
    THEN [status |-> 400, error |-> "Invalid bet amount"]
    ELSE NoError

\* the checks of a wager placement after the session check, in code order
PlacementError(uid, amount) ==
    IF ~UserAllowed(uid)
    THEN [status |-> 403, error |-> "User not found or banned"]
    ELSE IF ~BetAmountValid(amount)
    THEN [status |-> 400, error |-> "Invalid bet amount"]
    ELSE IF ~SufficientGems(users[uid].gems, amount)
    THEN [status |-> 400, error |-> "Insufficient gems"]
    ELSE NoError

\* catch (error) -> 500 'Internal server error'
InternalError(handler) ==
    ErrorResponse(handler, [status |-> 500, error |-> "Internal server error"])

\* --- POST mines bet
MinesBetStart(p, token, amount, server_seed) ==
    Begin(p, "minesBet", token, [amount |-> amount, server_seed |-> server_seed])

MinesBetUser(p) ==
    /\ At(p, "minesBet", "user")
    /\ LET r == procs[p] IN
       IF PlacementError(r.user_id, r.amount) # NoError
       THEN Set(p, ErrorResponse("minesBet", PlacementError(r.user_id, r.amount)))
       ELSE Set(p, [r EXCEPT !.pc = "debit"] @@ [gems |-> users[r.user_id].gems])
    /\ UNCHANGED <<users, sessions, bets, adminLog, quota>>

MinesBetDebit(p) ==
    /\ At(p, "minesBet", "debit")
    /\ LET r == procs[p] IN
       /\ users' = [users EXCEPT ![r.user_id].gems = r.gems - r.amount]
       /\ Set(p, [r EXCEPT !.pc = "create"])
    /\ UNCHANGED <<sessions, bets, adminLog, quota>>

MinesBetCreate(p) ==
    /\ At(p, "minesBet", "create")
    /\ LET r == procs[p] IN
       /\ bets' = Append(bets, [Bet(r.user_id, "mines", r.amount, "active", -r.amount, 0)
                                 EXCEPT !.server_seed = r.server_seed])
       /\ Set(p, Response("minesBet", 200, Len(bets) + 1))
    /\ UNCHANGED <<users, sessions, adminLog, quota>>

\* prisma.bet.create rejects (storage failure) after the debit was written
MinesBetCreateFail(p) ==
    /\ At(p, "minesBet", "create")
    /\ Set(p, InternalError("minesBet"))
    /\ UNCHANGED <<users, sessions, bets, adminLog, quota>>

\* PAYOUT_TABLES of the plinko page: one multiplier per landing slot 0..8,
\* written as tenths (5.6 is 56/10)
PAYOUT_TABLES ==
    [low |-> <<Multiplier(56, 10), Multiplier(21, 10), Multiplier(11, 10),
               Multiplier(10, 10), Multiplier(5, 10), Multiplier(10, 10),
               Multiplier(11, 10), Multiplier(21, 10), Multiplier(56, 10)>>,
     medium |-> <<Multiplier(130, 10), Multiplier(30, 10), Multiplier(13, 10),
                  Multiplier(7, 10), Multiplier(4, 10), Multiplier(7, 10),
                  Multiplier(13, 10), Multiplier(30, 10), Multiplier(130, 10)>>,
     high |-> <<Multiplier(290, 10), Multiplier(40, 10), Multiplier(15, 10),
                Multiplier(6, 10), Multiplier(2, 10), Multiplier(6, 10),
                Multiplier(15, 10), Multiplier(40, 10), Multiplier(290, 10)>>]

\* --- POST plinko drop
PlinkoStart(p, token, amount, mult) ==
    Begin(p, "plinko", token, [amount |-> amount, multiplier |-> mult])

PlinkoUser(p) ==
    /\ At(p, "plinko", "user")
    /\ LET r == procs[p] IN
       IF PlacementError(r.user_id, r.amount) # NoError
       THEN Set(p, ErrorResponse("plinko", PlacementError(r.user_id, r.amount)))
       ELSE Set(p, [r EXCEPT !.pc = "update"] @@
                   [gems |-> users[r.user_id].gems,
                    profit |-> Winnings(r.amount, r.multiplier) - r.amount])
    /\ UNCHANGED <<users, sessions, bets, adminLog, quota>>

PlinkoUpdate(p) ==
    /\ At(p, "plinko", "update")
    /\ LET r == procs[p] IN
       /\ users' = [users EXCEPT ![r.user_id].gems = r.gems + r.profit]
       /\ Set(p, [r EXCEPT !.pc = "create"])
    /\ UNCHANGED <<sessions, bets, adminLog, quota>>

PlinkoCreate(p) ==
    /\ At(p, "plinko", "create")
    /\ LET r == procs[p] IN
       /\ bets' = Append(bets, Bet(r.user_id, "plinko", r.amount, "none", r.profit, 0))
       /\ Set(p, Response("plinko", 200, Len(bets) + 1))
    /\ UNCHANGED <<users, sessions, adminLog, quota>>

\* prisma.bet.create rejects (storage failure) after the balance was written
PlinkoCreateFail(p) ==
    /\ At(p, "plinko", "create")
    /\ Set(p, InternalError("plinko"))
    /\ UNCHANGED <<users, sessions, bets, adminLog, quota>>

\* --- POST mines cash-out
BetIds == 0..Len(bets)

MinesCashoutStart(p, token, bet_id, mult) ==
    Begin(p, "minesCashout", token, [bet_id |-> bet_id, multiplier |-> mult])

CashoutUser(p, handler) ==
    /\ At(p, handler, "user")
    /\ LET r == procs[p] IN
       IF ~UserAllowed(r.user_id) THEN Set(p, Response(handler, 403, 0))
       ELSE Set(p, [r EXCEPT !.pc = "bet"] @@ [gems |-> users[r.user_id].gems])
    /\ UNCHANGED <<users, sessions, bets, adminLog, quota>>

MinesCashoutUser(p) == CashoutUser(p, "minesCashout")

\* Shared tail of both cash-out handlers once the bet row was read.
CashoutFound(p, handler, b) ==
    LET r == procs[p] IN
    IF ~BetIsActive(bets[b]) THEN Set(p, Response(handler, 400, b))
    ELSE Set(p, [r EXCEPT !.pc = "credit", !.bet_id = b] @@
                [winnings |-> Winnings(bets[b].amount, r.multiplier),
                 amount |-> bets[b].amount])

MinesCashoutFindBet(p) ==
    /\ At(p, "minesCashout", "bet")
    /\ LET r == procs[p] IN
       IF r.bet_id \notin 1..Len(bets) \/ bets[r.bet_id].user_id # r.user_id
       THEN Set(p, Response("minesCashout", 404, 0))
       ELSE CashoutFound(p, "minesCashout", r.bet_id)
    /\ UNCHANGED <<users, sessions, bets, adminLog, quota>>

CashoutCredit(p, handler) ==
    /\ At(p, handler, "credit")
    /\ LET r == procs[p] IN
       /\ users' = [users EXCEPT ![r.user_id].gems = r.gems + r.winnings]
       /\ Set(p, [r EXCEPT !.pc = "settle"])
    /\ UNCHANGED <<sessions, bets, adminLog, quota>>

CashoutSettle(p, handler) ==
    /\ At(p, handler, "settle")
    /\ LET r == procs[p] IN
       /\ bets' = [bets EXCEPT ![r.bet_id].status = "won",
                               ![r.bet_id].profit = r.winnings - r.amount]
       /\ Set(p, Response(handler, 200, r.bet_id))
    /\ UNCHANGED <<users, sessions, adminLog, quota>>

\* prisma.bet.update rejects (storage failure) after the credit was written
CashoutSettleFail(p, handler) ==
    /\ At(p, handler, "settle")
    /\ Set(p, InternalError(handler))
    /\ UNCHANGED <<users, sessions, bets, adminLog, quota>>

MinesCashoutCredit(p) == CashoutCredit(p, "minesCashout")
MinesCashoutSettle(p) == CashoutSettle(p, "minesCashout")
MinesCashoutSettleFail(p) == CashoutSettleFail(p, "minesCashout")

\* --- POST crash bet (documented endpoint; debit-then-record like the mines bet)
CrashBetStart(p, token, amount, round) ==
    Begin(p, "crashBet", token, [amount |-> amount, round_id |-> round])

CrashBetUser(p) ==
    /\ At(p, "crashBet", "user")
    /\ LET r == procs[p] IN
       IF PlacementError(r.user_id, r.amount) # NoError
       THEN Set(p, ErrorResponse("crashBet", PlacementError(r.user_id, r.amount)))
       ELSE Set(p, [r EXCEPT !.pc = "debit"] @@ [gems |-> users[r.user_id].gems])
    /\ UNCHANGED <<users, sessions, bets, adminLog, quota>>

CrashBetDebit(p) ==
    /\ At(p, "crashBet", "debit")
    /\ LET r == procs[p] IN
       /\ users' = [users EXCEPT ![r.user_id].gems = r.gems - r.amount]
       /\ Set(p, [r EXCEPT !.pc = "create"])
    /\ UNCHANGED <<sessions, bets, adminLog, quota>>

CrashBetCreate(p) ==
    /\ At(p, "crashBet", "create")
    /\ LET r == procs[p] IN
       /\ bets' = Append(bets, Bet(r.user_id, "crash", r.amount, "active",
                                   -r.amount, r.round_id))
       /\ Set(p, Response("crashBet", 200, Len(bets) + 1))
    /\ UNCHANGED <<users, sessions, adminLog, quota>>

\* --- POST crash cash-out
CrashCashoutStart(p, token, round, mult) ==
    Begin(p, "crashCashout", token, [bet_id |-> 0, round_id |-> round,
                                     multiplier |-> mult])

CrashCashoutUser(p) == CashoutUser(p, "crashCashout")

\* prisma.bet.findFirst({ user_id, game: 'crash', outcome.round_id }): no
\* orderBy, so any matching row may be the one returned.
CrashMatches(uid, round) ==
    {b \in 1..Len(bets) : /\ bets[b].user_id = uid
                          /\ bets[b].game = "crash"
                          /\ bets[b].round_id = round}

CrashCashoutFindBet(p) ==
    /\ At(p, "crashCashout", "bet")
    /\ LET r == procs[p]
           m == CrashMatches(r.user_id, r.round_id) IN
       IF m = {} THEN Set(p, Response("crashCashout", 404, 0))
       ELSE \E b \in m : CashoutFound(p, "crashCashout", b)
    /\ UNCHANGED <<users, sessions, bets, adminLog, quota>>

CrashCashoutCredit(p) == CashoutCredit(p, "crashCashout")
CrashCashoutSettle(p) == CashoutSettle(p, "crashCashout")

\* ------------------------------------------------------------ accounts
\* Number of accounts the user table can hold in a behaviour.
MaxUsers == 3
MaxTime == 11
AnyUserId == 1..MaxUsers

NewToken == CHOOSE t \in 1..(Cardinality(sessions) + 1) :
                \A s \in sessions : s.session_token # t

LogEntry(admin, action, target) ==
    [admin_id |-> admin, action |-> action, target_id |-> target]

\* --- POST register
\* registrations that have not yet inserted their row
PendingRegistrations ==
    Cardinality({q \in Procs : procs[q].kind = "register"
                                /\ procs[q].pc \in {"count", "create"}})

\* validateRegistrationInput, its look-up of the name included
ReservedUsernames ==
    {<<"a", "d", "m", "i", "n">>,
     <<"a", "d", "m", "i", "n", "i", "s", "t", "r", "a", "t", "o", "r">>,
     <<"r", "o", "o", "t">>,
     <<"s", "y", "s", "t", "e", "m">>,
     <<"o", "w", "n", "e", "r">>,
     <<"m", "o", "d", "e", "r", "a", "t", "o", "r">>,
     <<"g", "e", "m", "v", "e", "r", "s", "e">>,
     <<"c", "a", "s", "i", "n", "o">>,
     <<"s", "u", "p", "p", "o", "r", "t">>,
     <<"h", "e", "l", "p">>,
     <<"i", "n", "f", "o">>,
     <<"t", "e", "s", "t">>,
     <<"g", "u", "e", "s", "t">>}
UsernameChars == Range(UpperCase) \cup Range(LowerCase) \cup Range(Digits) \cup {"_", "-"}
UsernameTaken(username) ==
    \E u \in UserIds : ToLowerCase(users[u].username) = ToLowerCase(username)
ValidateRegistrationInput(username, password) ==
    IF Len(username) < 3 \/ Len(username) > 30
    THEN [status |-> 400, error |-> "Username must be 3-30 characters long"]
    ELSE IF ~(Range(username) \subseteq UsernameChars)
    THEN [status |-> 400, error |-> "Username can only contain letters, numbers, underscores, and hyphens"]
    ELSE IF Len(password) < 8
    THEN [status |-> 400, error |-> "Password must be at least 8 characters long"]
    ELSE IF Len(password) > 128
    THEN [status |-> 400, error |-> "Password too long"]
    ELSE IF \/ Range(password) \cap Range(Digits) = {}
            \/ Range(password) \cap Range(LowerCase) = {}
            \/ Range(password) \cap Range(UpperCase) = {}
    THEN [status |-> 400, error |-> "Password must contain at least one number, one lowercase, and one uppercase letter"]
    ELSE IF ToLowerCase(username) \in ReservedUsernames
    THEN [status |-> 400, error |-> "Username is reserved"]
    ELSE IF UsernameTaken(username)
    THEN [status |-> 400, error |-> "Username already taken"]
    ELSE NoError

\* the name and password of a request, kept with its slot
Credentials(username, password) == [username |-> username, password |-> password]

RegisterStartAs(p, username, password) ==
    /\ CanStart(p)
    /\ Len(users) + PendingRegistrations < MaxUsers
    /\ quota' = quota - 1
    /\ LET e == ValidateRegistrationInput(username, password) IN
       IF e # NoError
       THEN Set(p, ErrorResponse("register", e) @@ Credentials(username, password))
       ELSE Set(p, [kind |-> "register", pc |-> "count"]
                   @@ Credentials(username, password))
    /\ UNCHANGED <<users, sessions, bets, adminLog>>

\* a registration under a name nobody has asked for yet
FreshUsername ==
    <<"u", "s", "e", "r", Digits[Len(users) + PendingRegistrations + 2]>>
SamplePassword == <<"P", "a", "s", "s", "w", "0", "r", "d">>
RegisterStart(p) == RegisterStartAs(p, FreshUsername, SamplePassword)

\* const isFirstUser = (await prisma.user.count()) === 0
IsFirstUser == Len(users) = 0

RegisterCount(p) ==
    /\ At(p, "register", "count")
    /\ Set(p, [procs[p] EXCEPT !.pc = "create"] @@ [isFirstUser |-> IsFirstUser])
    /\ UNCHANGED <<users, sessions, bets, adminLog, quota>>

\* calculateStartingStats (no referral code)
StartingUser(isFirstUser) ==
    IF isFirstUser THEN User("OWNER", InitialGems, InitialCrystals)
                   ELSE User("PLAYER", StartingGems, 0)

\* the $transaction; username is a unique column, so the insert of a name
\* that is already stored fails and the handler answers 500
RegisterCreate(p) ==
    /\ At(p, "register", "create")
    /\ LET id == Len(users) + 1
           username == ToLowerCase(procs[p].username) IN
       IF \E u \in UserIds : users[u].username = username
       THEN /\ Set(p, InternalError("register"))
            /\ UNCHANGED <<users, adminLog>>
       ELSE /\ users' = Append(users, Account(username, procs[p].password,
                                              StartingUser(procs[p].isFirstUser)))
            /\ adminLog' = adminLog \cup {LogEntry(id, "USER_REGISTERED", id)}
            /\ Set(p, [procs[p] EXCEPT !.pc = "session"] @@ [user_id |-> id])
    /\ UNCHANGED <<sessions, bets, quota>>

RegisterSession(p) ==
    /\ At(p, "register", "session")
    /\ sessions' = sessions \cup
          {[session_token |-> NewToken, user_id |-> procs[p].user_id,
            expired |-> FALSE]}
    /\ Set(p, Response("register", 200, procs[p].user_id)
               @@ Credentials(procs[p].username, procs[p].password))
    /\ UNCHANGED <<users, bets, adminLog, quota>>

\* --- POST login
LoginError(username, password) ==
    LET found == {u \in UserIds : users[u].username = username} IN
    IF Len(username) = 0 \/ Len(password) = 0
    THEN [status |-> 400, error |-> "Username and password are required"]
    ELSE IF found = {}
    THEN [status |-> 401, error |-> "Invalid credentials"]
    ELSE IF \E u \in found : users[u].is_banned
    THEN [status |-> 403, error |-> "Account has been banned"]
    ELSE IF \E u \in found : ~BcryptCompare(password, users[u].password_hash)
    THEN [status |-> 401, error |-> "Invalid credentials"]
    ELSE NoError

\* prisma.user.findUnique({ where: { username } }) and the checks on its row
LoginStart(p, username, password) ==
    /\ CanStart(p)
    /\ quota' = quota - 1
    /\ LET e == LoginError(username, password) IN
       IF e # NoError
       THEN Set(p, ErrorResponse("login", e) @@ Credentials(username, password))
       ELSE Set(p, [kind |-> "login", pc |-> "update",
                    user_id |-> CHOOSE u \in UserIds : users[u].username = username]
                   @@ Credentials(username, password))
    /\ UNCHANGED <<users, sessions, bets, adminLog>>

\* prisma.user.update({ data: { last_active } })
LoginUpdate(p) ==
    /\ At(p, "login", "update")
    /\ Set(p, [procs[p] EXCEPT !.pc = "session"])
    /\ UNCHANGED <<users, sessions, bets, adminLog, quota>>

\* prisma.session.create
LoginCreate(p) ==
    /\ At(p, "login", "session")
    /\ sessions' = sessions \cup
          {[session_token |-> NewToken, user_id |-> procs[p].user_id,
            expired |-> FALSE]}
    /\ Set(p, Response("login", 200, procs[p].user_id)
               @@ Credentials(procs[p].username, procs[p].password))
    /\ UNCHANGED <<users, bets, adminLog, quota>>

\* --- GET session
SessionGetStart(p, token) ==
    /\ CanStart(p)
    /\ quota' = quota - 1
    /\ IF token = NoToken \/ ~\E s \in sessions : s.session_token = token
       THEN Set(p, Response("session", 401, token))
       ELSE IF ~SessionValid(token)
       THEN Set(p, [kind |-> "session", pc |-> "delete", token |-> token])
       ELSE Set(p, [kind |-> "session", pc |-> "user", token |-> token,
                    user_id |-> SessionUser(token)])
    /\ UNCHANGED <<users, sessions, bets, adminLog>>

\* prisma.session.delete: it throws when the record is gone, and the
\* handler then answers 500
SessionGetDelete(p) ==
    /\ At(p, "session", "delete")
    /\ LET found == {s \in sessions : s.session_token = procs[p].token} IN
       IF found = {}
       THEN /\ Set(p, InternalError("session") @@ [token |-> procs[p].token])
            /\ UNCHANGED sessions
       ELSE /\ sessions' = sessions \ found
            /\ Set(p, Response("session", 401, procs[p].token))
    /\ UNCHANGED <<users, bets, adminLog, quota>>

SessionGetUser(p) ==
    /\ At(p, "session", "user")
    /\ IF ~UserAllowed(procs[p].user_id)
       THEN Set(p, Response("session", 401, procs[p].token))
       ELSE Set(p, [procs[p] EXCEPT !.pc = "update"])
    /\ UNCHANGED <<users, sessions, bets, adminLog, quota>>

\* prisma.user.update({ data: { last_active } })
SessionGetUpdate(p) ==
    /\ At(p, "session", "update")
    /\ Set(p, Response("session", 200, procs[p].token))
    /\ UNCHANGED <<users, sessions, bets, adminLog, quota>>

\* --- POST logout
Logout(p, token) ==
    /\ CanStart(p)
    /\ quota' = quota - 1
    /\ sessions' = IF token = NoToken THEN sessions
                   ELSE {s \in sessions : s.session_token # token}
    /\ Set(p, Response("logout", 200, token))
    /\ UNCHANGED <<users, bets, adminLog>>

\* time passes the expiry date of a session
ExpireSession(token) ==
    /\ \E s \in sessions : s.session_token = token /\ ~s.expired
    /\ sessions' = {IF s.session_token = token THEN [s EXCEPT !.expired = TRUE]
                    ELSE s : s \in sessions}
    /\ UNCHANGED <<users, bets, adminLog, procs, quota, pageVars>>

\* --- OwnerManager
Owners == {u \in UserIds : users[u].role = "OWNER"}

\* getOwner: findFirst({ orderBy user_id asc, where role OWNER }); 0 is null
GetOwner == IF Owners = {} THEN 0
            ELSE CHOOSE u \in Owners : \A v \in Owners : u <= v

IsOwner(userId) == GetOwner # 0 /\ GetOwner = userId

TransferDone(status, from, to, swapped) ==
    [kind |-> "done", handler |-> "transfer", status |-> status, ref |-> to,
     from |-> from, swapped |-> swapped]

\* transferOwnership: true is 200, false is 400, a rejected promise is 500
TransferStart(p, from, to) ==
    /\ CanStart(p)
    /\ quota' = quota - 1
    /\ IF ~IsOwner(from) THEN Set(p, TransferDone(400, from, to, FALSE))
       ELSE IF from = to THEN Set(p, TransferDone(400, from, to, FALSE))
       ELSE Set(p, [kind |-> "transfer", pc |-> "target", from |-> from, to |-> to])
    /\ UNCHANGED <<users, sessions, bets, adminLog>>

\* if (!targetUser || targetUser.is_banned) return false
TransferTargetOk(to) == Exists(to) /\ ~users[to].is_banned

TransferTarget(p) ==
    /\ At(p, "transfer", "target")
    /\ LET r == procs[p] IN
       IF ~TransferTargetOk(r.to) THEN Set(p, TransferDone(400, r.from, r.to, FALSE))
       ELSE Set(p, [r EXCEPT !.pc = "tx"] @@
                   [gems |-> users[r.to].gems, crystals |-> users[r.to].crystals])
    /\ UNCHANGED <<users, sessions, bets, adminLog, quota>>

\* prisma.$transaction([update from, update to])
TransferTx(p) ==
    /\ At(p, "transfer", "tx")
    /\ LET r == procs[p] IN
       /\ users' = [users EXCEPT ![r.from].role = "ADMIN",
                                 ![r.to].role = "OWNER",
                                 ![r.to].gems = r.gems + InitialGems,
                                 ![r.to].crystals = r.crystals + InitialCrystals]
       /\ Set(p, [r EXCEPT !.pc = "log"])
    /\ UNCHANGED <<sessions, bets, adminLog, quota>>

TransferLog(p) ==
    /\ At(p, "transfer", "log")
    /\ LET r == procs[p] IN
       /\ adminLog' = adminLog \cup {LogEntry(r.from, "TRANSFER_OWNERSHIP", r.to)}
       /\ Set(p, TransferDone(200, r.from, r.to, TRUE))
    /\ UNCHANGED <<users, sessions, bets, quota>>

\* prisma.adminLog.create rejects (storage failure): the promise propagates
TransferLogFail(p) ==
    /\ At(p, "transfer", "log")
    /\ LET r == procs[p] IN Set(p, TransferDone(500, r.from, r.to, TRUE))
    /\ UNCHANGED <<users, sessions, bets, adminLog, quota>>

\* --- PermissionManager.validatePermissionTransition
ValidatorWithoutAdminLimits(currentRole, targetRole, actorRole) ==
    actorRole # "PLAYER"

ValidatePermissionTransition(currentRole, targetRole, actorRole) ==
    IF actorRole = "OWNER" THEN TRUE
    ELSE IF actorRole = "ADMIN" /\ targetRole \in {"OWNER", "ADMIN"} THEN FALSE
    ELSE IF actorRole = "ADMIN" /\ targetRole # "PLAYER" THEN FALSE
    ELSE IF actorRole = "PLAYER" THEN FALSE
    ELSE TRUE

\* One call of the validator; the slot keeps the arguments and the result.
ValidateDone(currentRole, targetRole, actorRole) ==
    [kind |-> "done", handler |-> "validate", status |-> 200, ref |-> 0,
     currentRole |-> currentRole, targetRole |-> targetRole,
     actorRole |-> actorRole,
     valid |-> ValidatePermissionTransition(currentRole, targetRole, actorRole)]

ValidateCall(p, currentRole, targetRole, actorRole) ==
    /\ quota > 0
    /\ procs[p] = Idle
    /\ \A q \in Procs : q < p => procs[q] # Idle
    /\ quota' = quota - 1
    /\ Set(p, ValidateDone(currentRole, targetRole, actorRole))
    /\ UNCHANGED <<users, sessions, bets, adminLog>>

\* --- POST admin ban
BanStart(p, token, id) == Begin(p, "ban", token, [id |-> id])

\* if (!admin || (admin.role !== 'ADMIN' && admin.role !== 'OWNER')) -> 403
IsStaff(uid) == Exists(uid) /\ users[uid].role \in {"ADMIN", "OWNER"}

BanAdmin(p) ==
    /\ At(p, "ban", "user")
    /\ LET r == procs[p] IN
       IF ~IsStaff(r.user_id) THEN Set(p, Response("ban", 403, r.id))
       ELSE Set(p, [r EXCEPT !.pc = "target"] @@ [actorRole |-> users[r.user_id].role])
    /\ UNCHANGED <<users, sessions, bets, adminLog, quota>>

\* the target checks of the ban route: 0 when the ban may proceed
BanTargetStatus(id, actorRole) ==
    IF ~Exists(id) THEN 404
    ELSE IF users[id].role = "OWNER" THEN 403
    ELSE IF users[id].role = "ADMIN" /\ actorRole # "OWNER" THEN 403
    ELSE 0

BanTarget(p) ==
    /\ At(p, "ban", "target")
    /\ LET r == procs[p]
           st == BanTargetStatus(r.id, r.actorRole) IN
       IF st # 0 THEN Set(p, Response("ban", st, r.id))
       ELSE Set(p, [r EXCEPT !.pc = "update"])
    /\ UNCHANGED <<users, sessions, bets, adminLog, quota>>

BanUpdate(p) ==
    /\ At(p, "ban", "update")
    /\ users' = [users EXCEPT ![procs[p].id].is_banned = TRUE]
    /\ Set(p, [procs[p] EXCEPT !.pc = "sessions"])
    /\ UNCHANGED <<sessions, bets, adminLog, quota>>

BanSessions(p) ==
    /\ At(p, "ban", "sessions")
    /\ sessions' = {s \in sessions : s.user_id # procs[p].id}
    /\ Set(p, [procs[p] EXCEPT !.pc = "log"])
    /\ UNCHANGED <<users, bets, adminLog, quota>>

BanLog(p) ==
    /\ At(p, "ban", "log")
    /\ adminLog' = adminLog \cup {LogEntry(procs[p].user_id, "BAN_USER", procs[p].id)}
    /\ Set(p, Response("ban", 200, procs[p].id))
    /\ UNCHANGED <<users, sessions, bets, quota>>

\* --- PATCH owner user update
PatchBodies == {[role |-> r] : r \in Roles} \cup {[is_banned |-> b] : b \in BOOLEAN}

PatchStart(p, token, id, body) == Begin(p, "patch", token, [id |-> id, body |-> body])

\* if (!owner || owner.role !== 'OWNER') -> 403
HasOwnerRole(uid) == Exists(uid) /\ users[uid].role = "OWNER"

PatchOwner(p) ==
    /\ At(p, "patch", "user")
    /\ LET r == procs[p] IN
       IF ~HasOwnerRole(r.user_id) THEN Set(p, Response("patch", 403, r.id))
       ELSE Set(p, [r EXCEPT !.pc = "target"])
    /\ UNCHANGED <<users, sessions, bets, adminLog, quota>>

\* the target checks of the PATCH route: 0 when the update may proceed
PatchTargetStatus(id, ownerId) ==
    IF ~Exists(id) THEN 404
    ELSE IF users[id].role = "OWNER" /\ ownerId # id THEN 403
    ELSE 0

PatchTarget(p) ==
    /\ At(p, "patch", "target")
    /\ LET r == procs[p]
           st == PatchTargetStatus(r.id, r.user_id) IN
       IF st # 0 THEN Set(p, Response("patch", st, r.id))
       ELSE Set(p, [r EXCEPT !.pc = "update"])
    /\ UNCHANGED <<users, sessions, bets, adminLog, quota>>

\* prisma.user.update({ where: { user_id }, data: body })
ApplyBody(u, body) == [f \in DOMAIN u |-> IF f \in DOMAIN body THEN body[f] ELSE u[f]]

PatchUpdate(p) ==
    /\ At(p, "patch", "update")
    /\ users' = [users EXCEPT ![procs[p].id] = ApplyBody(@, procs[p].body)]
    /\ Set(p, [procs[p] EXCEPT !.pc = "log"])
    /\ UNCHANGED <<sessions, bets, adminLog, quota>>

PatchLog(p) ==
    /\ At(p, "patch", "log")
    /\ adminLog' = adminLog \cup {LogEntry(procs[p].user_id, "UPDATE_USER", procs[p].id)}
    /\ Set(p, Response("patch", 200, procs[p].id))
    /\ UNCHANGED <<users, sessions, bets, quota>>

\* --- POST owner bulk action
BulkActions == {"ban", "unban", "promote", "demote"}
BulkSelections == (SUBSET AnyUserId) \ {{}}

BulkStart(p, token, action, ids) ==
    Begin(p, "bulk", token, [action |-> action, user_ids |-> ids])

BulkActor(p) ==
    /\ At(p, "bulk", "user")
    /\ LET r == procs[p] IN
       IF ~HasOwnerRole(r.user_id) THEN Set(p, Response("bulk", 403, 0))
       ELSE Set(p, [r EXCEPT !.pc = "targets"] @@ [actorRole |-> users[r.user_id].role])
    /\ UNCHANGED <<users, sessions, bets, adminLog, quota>>

\* the loop over targetUsers: the ids that end in validTargets
BulkTargetValid(id, action, actorRole) ==
    /\ users[id].role # "OWNER"
    /\ action \in {"promote", "demote"} =>
          ValidatePermissionTransition(users[id].role,
              IF action = "promote" THEN "ADMIN" ELSE "PLAYER", actorRole)

BulkTargets(p) ==
    /\ At(p, "bulk", "targets")
    /\ LET r == procs[p] IN
       Set(p, [kind |-> "bulk", pc |-> "tx", user_id |-> r.user_id,
               action |-> r.action,
               validTargets |-> {id \in r.user_ids \cap UserIds :
                                    BulkTargetValid(id, r.action, r.actorRole)}])
    /\ UNCHANGED <<users, sessions, bets, adminLog, quota>>

BulkUpdate(u, action) ==
    CASE action = "ban" -> [u EXCEPT !.is_banned = TRUE]
      [] action = "unban" -> [u EXCEPT !.is_banned = FALSE]
      [] action = "promote" -> [u EXCEPT !.role = "ADMIN"]
      [] action = "demote" -> [u EXCEPT !.role = "PLAYER"]

BulkLogAction(action) ==
    CASE action = "ban" -> "BULK_BAN"
      [] action = "unban" -> "BULK_UNBAN"
      [] action = "promote" -> "BULK_PROMOTE"
      [] action = "demote" -> "BULK_DEMOTE"

\* prisma.$transaction(async tx => ...): updates, log rows, session deletes
BulkTx(p) ==
    /\ At(p, "bulk", "tx")
    /\ LET r == procs[p] IN
       /\ users' = [u \in UserIds |->
                       IF u \in r.validTargets THEN BulkUpdate(users[u], r.action)
                                               ELSE users[u]]
       /\ adminLog' = adminLog \cup
             {LogEntry(r.user_id, BulkLogAction(r.action), u) : u \in r.validTargets}
       /\ sessions' = IF r.action = "ban"
                      THEN {s \in sessions : s.user_id \notin r.validTargets}
                      ELSE sessions
       /\ Set(p, Response("bulk", 200, Cardinality(r.validTargets)))
    /\ UNCHANGED <<bets, quota>>

\* --- POST gem transfer
\* amounts and recipient names of the request body
TransferAmounts == {-5, 100, InitialGems + 1}
UnknownUsername == <<"n", "o", "b", "o", "d", "y">>
RecipientNames == {OwnerUsername, PlayerUsername(SeedPlayers), UnknownUsername}

\* Math.floor(amount * 0.05)
TaxPercent == 5
Tax(amount) == (amount * TaxPercent) \div 100

GemTransferStart(p, token, to_username, amount) ==
    Begin(p, "gemTransfer", token, [to_username |-> to_username, amount |-> amount])

GemTransferUser(p) ==
    /\ At(p, "gemTransfer", "user")
    /\ LET r == procs[p] IN
       IF ~UserAllowed(r.user_id)
       THEN Set(p, ErrorResponse("gemTransfer",
                      [status |-> 403, error |-> "User not found or banned"]))
       ELSE Set(p, [r EXCEPT !.pc = "recipient"] @@ [fromGems |-> users[r.user_id].gems])
    /\ UNCHANGED <<users, sessions, bets, adminLog, quota>>

GemTransferError(r) ==
    LET found == {u \in UserIds : users[u].username = r.to_username} IN
    IF found = {}
    THEN [status |-> 404, error |-> "Recipient not found"]
    ELSE IF r.user_id \in found
    THEN [status |-> 400, error |-> "Cannot transfer to yourself"]
    ELSE IF r.fromGems < r.amount
    THEN [status |-> 400, error |-> "Insufficient gems"]
    ELSE NoError

GemTransferRecipient(p) ==
    /\ At(p, "gemTransfer", "recipient")
    /\ LET r == procs[p] IN
       IF GemTransferError(r) # NoError
       THEN Set(p, ErrorResponse("gemTransfer", GemTransferError(r)))
       ELSE LET to == CHOOSE u \in UserIds : users[u].username = r.to_username IN
            Set(p, [r EXCEPT !.pc = "tx"] @@ [to |-> to, toGems |-> users[to].gems])
    /\ UNCHANGED <<users, sessions, bets, adminLog, quota>>

\* prisma.$transaction of the two updates, each writing the balance computed
\* from the rows read before
GemTransferTx(p) ==
    /\ At(p, "gemTransfer", "tx")
    /\ LET r == procs[p] IN
       /\ users' = [users EXCEPT
                       ![r.user_id].gems = r.fromGems - r.amount,
                       ![r.to].gems = r.toGems + (r.amount - Tax(r.amount))]
       /\ Set(p, Response("gemTransfer", 200, r.to))
    /\ UNCHANGED <<sessions, bets, adminLog, quota>>

\* ------------------------------------------------------------ mines page
\* The page of the grid game. A cell (row, col) of an N x N board is the
\* position row * N + col; grid, revealed and flagged are the sets of
\* positions whose entry is true.
serverVars == <<users, sessions, bets, adminLog, procs, quota>>

\* the account logged in at the page (useAuth): the last seeded account
PageUser == Len(SeedUsers)

\* slider values tried for the grid size, and for the mine count given the
\* current grid size (the mine slider runs from 1 to gridSize * gridSize - 1)
GridSizes == {MinGridSize, DefaultGridSize}
MineCounts == {m \in {MinMines, DefaultMineCount, gridSize * gridSize - 1} :
                  m >= MinMines /\ m <= gridSize * gridSize - 1}
\* values typed into the bet input
BetInputs == {0, 250}

NoToast == [title |-> "", winnings |-> 0]
Toast(title, winnings) == [title |-> title, winnings |-> winnings]

InitialGameState ==
    [size |-> 0, grid |-> {}, revealed |-> {}, flagged |-> {},
     mines |-> DefaultMineCount, betAmount |-> DefaultBet,
     currentMultiplier |-> Multiplier(1, 1),
     gameActive |-> FALSE, gameOver |-> FALSE, won |-> FALSE,
     serverSeed |-> NoSeed]

PageInit ==
    /\ gridSize = DefaultGridSize
    /\ mineCount = DefaultMineCount
    /\ gameState = InitialGameState
    /\ toast = NoToast

\* mines.sort(() => Math.random() - 0.5).slice(0, mineCount): the first
\* mineCount entries of a shuffle of 0 .. n*n-1 (all of them when mineCount
\* exceeds n*n). Two shuffles are tried: the identity and the reversal.
Shuffles == {"identity", "reversed"}
MinePositions(n, count, shuffle) ==
    LET cells == n * n
        taken == IF count > cells THEN cells ELSE count IN
    IF shuffle = "identity" THEN 0..(taken - 1)
                            ELSE (cells - taken)..(cells - 1)

\* cells that are clicked: the first two and the last one of the board
Cells == IF gameState.size = 0 THEN {}
         ELSE {0, 1, gameState.size * gameState.size - 1}

SetGridSize(value) ==
    /\ value # gridSize
    /\ gridSize' = value
    /\ UNCHANGED <<mineCount, gameState, toast>>
    /\ UNCHANGED <<serverVars, crashPage>>

SetMineCount(value) ==
    /\ value # mineCount
    /\ mineCount' = value
    /\ UNCHANGED <<gridSize, gameState, toast>>
    /\ UNCHANGED <<serverVars, crashPage>>

\* parseInt(e.target.value) || 100
ParseBet(value) == IF value = 0 THEN DefaultBet ELSE value

SetBetAmount(value) ==
    /\ ParseBet(value) # gameState.betAmount
    /\ gameState' = [gameState EXCEPT !.betAmount = ParseBet(value)]
    /\ UNCHANGED <<gridSize, mineCount, toast>>
    /\ UNCHANGED <<serverVars, crashPage>>

\* Start Game / Play Again: shown while no game is active, disabled when
\* user.gems < betAmount. The server seed is fresh: the number of the game.
InitializeGame(shuffle) ==
    /\ ~gameState.gameActive
    /\ ~(users[PageUser].gems < gameState.betAmount)
    /\ gameState.serverSeed < MaxGames
    /\ gameState' =
          [size |-> gridSize,
           grid |-> MinePositions(gridSize, mineCount, shuffle),
           revealed |-> {}, flagged |-> {},
           mines |-> mineCount,
           betAmount |-> gameState.betAmount,
           currentMultiplier |-> Multiplier(1, 1),
           gameActive |-> TRUE, gameOver |-> FALSE, won |-> FALSE,
           serverSeed |-> gameState.serverSeed + 1]
    /\ UNCHANGED <<gridSize, mineCount, toast>>
    /\ UNCHANGED <<serverVars, crashPage>>

\* calculateMultiplier, for revealedCount >= 1, over the settings of the page:
\* Math.max(1.0, Math.min(1 / (1 - revealedCount / safeTiles), 1000)).
\* safeTiles = 0 gives 1 / -Infinity = -0 and revealedCount = safeTiles
\* gives 1 / 0 = Infinity.
CalculateMultiplier(revealedCount) ==
    LET totalTiles == gridSize * gridSize
        safeTiles == totalTiles - mineCount
        left == safeTiles - revealedCount IN
    IF safeTiles = 0 THEN Multiplier(1, 1)
    ELSE IF left = 0 THEN Multiplier(MaxMultiplier, 1)
    ELSE IF (left < 0) # (safeTiles < 0) THEN Multiplier(1, 1)
    ELSE LET num == IF safeTiles < 0 THEN -safeTiles ELSE safeTiles
             den == IF left < 0 THEN -left ELSE left IN
         IF num < den THEN Multiplier(1, 1)
         ELSE IF num > MaxMultiplier * den THEN Multiplier(MaxMultiplier, 1)
         ELSE Multiplier(num, den)

RevealCell(pos) ==
    /\ gameState.gameActive
    /\ pos \notin gameState.revealed
    /\ pos \notin gameState.flagged
    /\ LET newRevealed == gameState.revealed \cup {pos}
           revealedCount == Cardinality(newRevealed)
           multiplier == CalculateMultiplier(revealedCount) IN
       IF pos \in gameState.grid
       THEN /\ gameState' = [gameState EXCEPT !.revealed = newRevealed,
                                              !.gameActive = FALSE,
                                              !.gameOver = TRUE,
                                              !.won = FALSE]
            /\ toast' = Toast("Game Over!", 0)
       ELSE IF revealedCount = gridSize * gridSize - mineCount
       THEN /\ gameState' = [gameState EXCEPT !.revealed = newRevealed,
                                              !.currentMultiplier = multiplier,
                                              !.gameActive = FALSE,
                                              !.gameOver = TRUE,
                                              !.won = TRUE]
            /\ toast' = Toast("You Won!", Winnings(gameState.betAmount, multiplier))
       ELSE /\ gameState' = [gameState EXCEPT !.revealed = newRevealed,
                                              !.currentMultiplier = multiplier]
            /\ UNCHANGED toast
    /\ UNCHANGED <<gridSize, mineCount>>
    /\ UNCHANGED <<serverVars, crashPage>>

ToggleFlag(pos) ==
    /\ gameState.gameActive
    /\ pos \notin gameState.revealed
    /\ gameState' = [gameState EXCEPT !.flagged =
                         IF pos \in @ THEN @ \ {pos} ELSE @ \cup {pos}]
    /\ UNCHANGED <<gridSize, mineCount, toast>>
    /\ UNCHANGED <<serverVars, crashPage>>

CashOut ==
    /\ gameState.gameActive
    /\ gameState' = [gameState EXCEPT !.gameActive = FALSE,
                                      !.gameOver = TRUE,
                                      !.won = TRUE]
    /\ toast' = Toast("Cashed Out!",
                      Winnings(gameState.betAmount, gameState.currentMultiplier))
    /\ UNCHANGED <<gridSize, mineCount>>
    /\ UNCHANGED <<serverVars, crashPage>>

\* ------------------------------------------------------------ crash page
\* The page of the crash game. It talks to no route: rounds, bets and
\* cash-outs live in the state of the page. Time is counted in whole seconds
\* since the page was mounted, with one animation frame per second;
\* multipliers and crash points are counted in hundredths (150 is 1.50x).
minesVars == <<gridSize, mineCount, gameState, toast>>

\* setInterval(startNewRound, 10000)
RoundPeriod == 10
\* crashPoint = 1 + Math.random() * 50
CrashRange == 50
\* setHistory(prev => [...prev.slice(-49), crashPoint])
HistoryKept == 49

\* values of Math.random(), in hundredths
RandomDraws == {0, 1, 99}
\* values typed into the auto cash-out input (0: the input is cleared), and
\* into the bet input of the crash page
AutoCashouts == {0, 150}
CrashBetInputs == {0, 250}

\* Math.exp(elapsed / 10) in hundredths for elapsed = 0, 1, ... seconds; a
\* round is at most RoundPeriod seconds old when a frame runs
GrowthTable == <<100, 111, 122, 135, 149, 165, 182, 201, 223, 246, 272, 300, 332>>
GrowthAt(elapsed) ==
    IF elapsed + 1 <= Len(GrowthTable) THEN GrowthTable[elapsed + 1]
                                       ELSE GrowthTable[Len(GrowthTable)]

NoRound == [id |-> 0, startTime |-> 0, multiplier |-> 100, status |-> "none",
            crashPoint |-> 0]
\* the values the functions of one render see (the closure of the game loop)
NoLoop == [running |-> FALSE, multiplier |-> 100, myBets |-> {}, bets |-> {}]

CrashPageInit ==
    crashPage = [mounted |-> FALSE, now |-> 0, timerAt |-> 0,
                 framePending |-> FALSE, currentRound |-> NoRound,
                 bets |-> {}, myBets |-> {}, nextBet |-> 1,
                 isPlaying |-> FALSE, canBet |-> TRUE,
                 autoCashout |-> 0, betAmount |-> DefaultBet,
                 history |-> <<>>, loop |-> NoLoop, shown |-> {}]

CrashStep(next) ==
    /\ crashPage' = next
    /\ UNCHANGED <<serverVars, minesVars>>

\* the round startNewRound creates: it resets canBet and bets, and nothing
\* else; the game loop of the replaced round is cancelled by the cleanup of
\* its effect
NewRound(r) ==
    [crashPage EXCEPT
        !.currentRound = [id |-> crashPage.currentRound.id + 1,
                          startTime |-> crashPage.now,
                          multiplier |-> 100, status |-> "waiting",
                          crashPoint |-> 100 + r * CrashRange],
        !.canBet = TRUE,
        !.bets = {},
        !.timerAt = crashPage.now,
        !.loop = NoLoop,
        !.framePending = FALSE,
        !.shown = {}]

\* mounting the page: startNewRound() and the interval timer
Mount(r) ==
    /\ ~crashPage.mounted
    /\ CrashStep([NewRound(r) EXCEPT !.mounted = TRUE])

TimerDue == crashPage.mounted /\ crashPage.now - crashPage.timerAt = RoundPeriod

\* the interval timer fires, whatever the status of the current round
StartNewRound(r) ==
    /\ TimerDue
    /\ CrashStep(NewRound(r))

\* a second passes once the callbacks due now have run
Advance ==
    /\ crashPage.mounted
    /\ crashPage.now < MaxTime
    /\ ~TimerDue
    /\ ~crashPage.framePending
    /\ CrashStep([crashPage EXCEPT !.now = crashPage.now + 1,
                                   !.framePending = crashPage.loop.running,
                                   !.shown = {}])

\* the game-loop effect runs again when the status or start time of the
\* round or the auto cash-out value changed: it captures the render's values
StartLoop(page) ==
    IF page.currentRound.status = "active"
    THEN [page EXCEPT !.loop = [running |-> TRUE,
                                multiplier |-> page.currentRound.multiplier,
                                myBets |-> page.myBets,
                                bets |-> page.bets],
                      !.framePending = TRUE]
    ELSE [page EXCEPT !.loop = NoLoop, !.framePending = FALSE]

CrashBet(id, amount) ==
    [id |-> id, amount |-> amount, cashedOut |-> FALSE, cashoutMultiplier |-> 0]

SetAutoCashout(value) ==
    /\ crashPage.mounted
    /\ value # crashPage.autoCashout
    /\ CrashStep(StartLoop([crashPage EXCEPT !.autoCashout = value,
                                             !.shown = {}]))

\* parseInt(e.target.value) || 100
SetCrashBetAmount(value) ==
    LET amount == IF value = 0 THEN DefaultBet ELSE value IN
    /\ crashPage.mounted
    /\ amount # crashPage.betAmount
    /\ CrashStep([crashPage EXCEPT !.betAmount = amount, !.shown = {}])

\* the Place Bet button (disabled while isPlaying) and placeBet
PlaceBet ==
    LET newBet == CrashBet(crashPage.nextBet, crashPage.betAmount)
        starts == crashPage.currentRound.status = "waiting"
        placed == [crashPage EXCEPT
                      !.bets = crashPage.bets \cup {newBet},
                      !.myBets = crashPage.myBets \cup {newBet},
                      !.nextBet = crashPage.nextBet + 1,
                      !.canBet = FALSE,
                      !.isPlaying = TRUE,
                      !.currentRound.status =
                          IF starts THEN "active" ELSE @,
                      !.shown = {}] IN
    /\ crashPage.mounted
    /\ crashPage.canBet
    /\ ~crashPage.isPlaying
    /\ users[PageUser].gems >= crashPage.betAmount
    /\ CrashStep(IF starts THEN StartLoop(placed) ELSE placed)

MarkCashedOut(set, ids, multiplier) ==
    {IF b.id \in ids
     THEN [b EXCEPT !.cashedOut = TRUE, !.cashoutMultiplier = multiplier]
     ELSE b : b \in set}

\* cashOutAll of a render that saw the round active with the given
\* multiplier, myBets and bets: cashOut for every bet of myBets it saw as
\* not cashed out, each with the multiplier it saw
CashOutAllWith(page, seen) ==
    LET ids == {b.id : b \in {x \in seen.myBets : ~x.cashedOut}} IN
    [page EXCEPT
        !.bets = MarkCashedOut(page.bets, ids, seen.multiplier),
        !.myBets = MarkCashedOut(page.myBets, ids, seen.multiplier),
        !.shown = {Toast("Cashed Out!",
                         Winnings(b.amount, Multiplier(seen.multiplier, 100))) :
                      b \in {x \in seen.bets : x.id \in ids}}]

\* the Cash Out All button of the current render
CashOutAll ==
    /\ crashPage.mounted
    /\ crashPage.myBets # {}
    /\ crashPage.currentRound.status = "active"
    /\ \E b \in crashPage.myBets : ~b.cashedOut
    /\ CrashStep(CashOutAllWith(crashPage,
                    [multiplier |-> crashPage.currentRound.multiplier,
                     myBets |-> crashPage.myBets, bets |-> crashPage.bets]))

LastOf(seq, n) ==
    IF Len(seq) <= n THEN seq ELSE SubSeq(seq, Len(seq) - n + 1, Len(seq))

\* one frame of the game loop
Animate ==
    LET round == crashPage.currentRound
        multiplier == GrowthAt(crashPage.now - round.startTime)
        frame == [crashPage EXCEPT !.framePending = FALSE, !.shown = {}] IN
    /\ crashPage.framePending
    /\ IF multiplier >= round.crashPoint
       THEN CrashStep([frame EXCEPT
                !.currentRound.status = "crashed",
                !.currentRound.multiplier = round.crashPoint,
                !.history = Append(LastOf(crashPage.history, HistoryKept),
                                   round.crashPoint),
                !.shown = {Toast("Crash!", b.amount) :
                              b \in {x \in crashPage.bets : ~x.cashedOut}},
                !.bets = {},
                !.myBets = {},
                !.canBet = TRUE,
                !.isPlaying = FALSE,
                !.loop = NoLoop])
       ELSE LET grown == [frame EXCEPT !.currentRound.multiplier = multiplier] IN
            IF crashPage.autoCashout # 0 /\ multiplier >= crashPage.autoCashout
            THEN CrashStep(CashOutAllWith(grown, crashPage.loop))
            ELSE CrashStep(grown)

\* ------------------------------------------------------- specifications
\* The seeded database with every seeded account logged in.
InitSeeded(n) ==
    /\ users = SeedUsers
    /\ sessions = {LoginSession(u) : u \in 1..Len(SeedUsers)}
    /\ bets = <<>>
    /\ adminLog = {}
    /\ procs = [p \in Procs |-> Idle]
    /\ quota = n
    /\ PageInit
    /\ CrashPageInit

WagerStep(p) ==
    \/ \E t \in Tokens, a \in BetAmounts : MinesBetStart(p, t, a, NoSeed)
    \/ MinesBetUser(p)
    \/ MinesBetDebit(p)
    \/ MinesBetCreate(p)
    \/ \E t \in Tokens, a \in BetAmounts, m \in Multipliers : PlinkoStart(p, t, a, m)
    \/ PlinkoUser(p)
    \/ PlinkoUpdate(p)
    \/ PlinkoCreate(p)
    \/ \E t \in Tokens, b \in BetIds, m \in Multipliers : MinesCashoutStart(p, t, b, m)
    \/ MinesCashoutUser(p)
    \/ MinesCashoutFindBet(p)
    \/ MinesCashoutCredit(p)
    \/ MinesCashoutSettle(p)
    \/ \E t \in Tokens, a \in BetAmounts, r \in RoundIds : CrashBetStart(p, t, a, r)
    \/ CrashBetUser(p)
    \/ CrashBetDebit(p)
    \/ CrashBetCreate(p)
    \/ \E t \in Tokens, r \in RoundIds, m \in Multipliers : CrashCashoutStart(p, t, r, m)
    \/ CrashCashoutUser(p)
    \/ CrashCashoutFindBet(p)
    \/ CrashCashoutCredit(p)
    \/ CrashCashoutSettle(p)

NextWager == \E p \in Procs : WagerStep(p)

InitWager == InitSeeded(MaxRequests)

SpecWager == InitWager /\ [][NextWager]_vars

\* Requests served one at a time: a request starts and runs only while no
\* other request is in flight.
NextWagerSeq ==
    \E p \in Procs : (\A q \in Procs \ {p} : FreeSlot(q)) /\ WagerStep(p)

SpecWagerSeq == InitWager /\ [][NextWagerSeq]_vars

\* A fresh deployment: empty tables, the first registration creates the owner.
InitEmpty(n) ==
    /\ users = <<>>
    /\ sessions = {}
    /\ bets = <<>>
    /\ adminLog = {}
    /\ procs = [p \in Procs |-> Idle]
    /\ quota = n
    /\ PageInit
    /\ CrashPageInit

RoleStep(p) ==
    \/ RegisterStart(p)
    \/ RegisterCount(p)
    \/ RegisterCreate(p)
    \/ RegisterSession(p)
    \/ \E from \in AnyUserId, to \in AnyUserId : TransferStart(p, from, to)
    \/ TransferTarget(p)
    \/ TransferTx(p)
    \/ TransferLog(p)
    \/ TransferLogFail(p)
    \/ \E t \in Tokens, id \in AnyUserId : BanStart(p, t, id)
    \/ BanAdmin(p)
    \/ BanTarget(p)
    \/ BanUpdate(p)
    \/ BanSessions(p)
    \/ BanLog(p)
    \/ \E t \in Tokens, id \in AnyUserId, b \in PatchBodies : PatchStart(p, t, id, b)
    \/ PatchOwner(p)
    \/ PatchTarget(p)
    \/ PatchUpdate(p)
    \/ PatchLog(p)
    \/ \E t \in Tokens, a \in BulkActions, ids \in BulkSelections : BulkStart(p, t, a, ids)
    \/ BulkActor(p)
    \/ BulkTargets(p)
    \/ BulkTx(p)

NextRole == \E p \in Procs : RoleStep(p)

InitRole == InitEmpty(MaxRoleRequests) \/ InitSeeded(MaxRoleRequests)

SpecRole == InitRole /\ [][NextRole]_vars

\* One ownership transfer, issued first, next to the wagers of the accounts
\* it touches.
TransferWagerStep(p) ==
    \/ /\ quota = MaxRoleRequests
       /\ \E from \in AnyUserId, to \in AnyUserId : TransferStart(p, from, to)
    \/ TransferTarget(p)
    \/ TransferTx(p)
    \/ TransferLog(p)
    \/ TransferLogFail(p)
    \/ \E t \in Tokens, a \in BetAmounts : MinesBetStart(p, t, a, NoSeed)
    \/ MinesBetUser(p)
    \/ MinesBetDebit(p)
    \/ MinesBetCreate(p)

NextTransfer == \E p \in Procs : TransferWagerStep(p)

SpecTransfer == InitSeeded(MaxRoleRequests) /\ [][NextTransfer]_vars

\* Requests served one at a time over a storage layer whose second write of a
\* wager request may fail.
WagerFailStep(p) ==
    \/ \E t \in Tokens, a \in BetAmounts : MinesBetStart(p, t, a, NoSeed)
    \/ MinesBetUser(p)
    \/ MinesBetDebit(p)
    \/ MinesBetCreate(p)
    \/ MinesBetCreateFail(p)
    \/ \E t \in Tokens, a \in BetAmounts, m \in Multipliers : PlinkoStart(p, t, a, m)
    \/ PlinkoUser(p)
    \/ PlinkoUpdate(p)
    \/ PlinkoCreate(p)
    \/ PlinkoCreateFail(p)
    \/ \E t \in Tokens, b \in BetIds, m \in Multipliers : MinesCashoutStart(p, t, b, m)
    \/ MinesCashoutUser(p)
    \/ MinesCashoutFindBet(p)
    \/ MinesCashoutCredit(p)
    \/ MinesCashoutSettle(p)
    \/ MinesCashoutSettleFail(p)

NextWagerFail ==
    \E p \in Procs : (\A q \in Procs \ {p} : FreeSlot(q)) /\ WagerFailStep(p)

SpecWagerFail == InitSeeded(MaxRequests) /\ [][NextWagerFail]_vars

\* A ban next to the wagers of the banned account.
BanWagerStep(p) ==
    \/ \E t \in Tokens, id \in AnyUserId : BanStart(p, t, id)
    \/ BanAdmin(p)
    \/ BanTarget(p)
    \/ BanUpdate(p)
    \/ BanSessions(p)
    \/ BanLog(p)
    \/ \E t \in Tokens, a \in BetAmounts : MinesBetStart(p, t, a, NoSeed)
    \/ MinesBetUser(p)
    \/ MinesBetDebit(p)
    \/ MinesBetCreate(p)
    \/ \E t \in Tokens, a \in BetAmounts, m \in Multipliers : PlinkoStart(p, t, a, m)
    \/ PlinkoUser(p)
    \/ PlinkoUpdate(p)
    \/ PlinkoCreate(p)
    \/ \E t \in Tokens, b \in BetIds, m \in Multipliers : MinesCashoutStart(p, t, b, m)
    \/ MinesCashoutUser(p)
    \/ MinesCashoutFindBet(p)
    \/ MinesCashoutCredit(p)
    \/ MinesCashoutSettle(p)

NextBanWager == \E p \in Procs : BanWagerStep(p)

SpecBanWager == InitSeeded(MaxRequests) /\ [][NextBanWager]_vars

\* Wager placements next to a ban.
PlacementStep(p) ==
    \/ \E t \in Tokens, id \in AnyUserId : BanStart(p, t, id)
    \/ BanAdmin(p)
    \/ BanTarget(p)
    \/ BanUpdate(p)
    \/ BanSessions(p)
    \/ BanLog(p)
    \/ \E t \in Tokens, a \in BetAmounts : MinesBetStart(p, t, a, NoSeed)
    \/ MinesBetUser(p)
    \/ MinesBetDebit(p)
    \/ MinesBetCreate(p)
    \/ \E t \in Tokens, a \in BetAmounts, m \in Multipliers : PlinkoStart(p, t, a, m)
    \/ PlinkoUser(p)
    \/ PlinkoUpdate(p)
    \/ PlinkoCreate(p)

NextPlacement == \E p \in Procs : PlacementStep(p)

SpecPlacement == InitSeeded(MaxRoleRequests) /\ [][NextPlacement]_vars

\* The mines page on its own: settings, bet input, and the game.
NextMinesPage ==
    \/ \E v \in GridSizes : SetGridSize(v)
    \/ \E v \in MineCounts : SetMineCount(v)
    \/ \E v \in BetInputs : SetBetAmount(v)
    \/ \E sh \in Shuffles : InitializeGame(sh)
    \/ \E pos \in Cells : RevealCell(pos)
    \/ \E pos \in Cells : ToggleFlag(pos)
    \/ CashOut

SpecMinesPage == InitSeeded(MaxRequests) /\ [][NextMinesPage]_vars

\* the session cookie of the browser that shows the page
PageToken == LoginSession(PageUser).session_token

\* multipliers sent with the cash-out requests of the page's player
CashoutMultipliers == {Multiplier(3, 2), Multiplier(20, 19)}

\* The game of the page next to the mines wager routes: the player of the
\* page places a wager with the seed of the started game (the seed is random,
\* so it is sent only once the page has generated it) and cashes out over
\* the API.
MinesGameStep(p) ==
    \/ /\ gameState.serverSeed # NoSeed
       /\ \E a \in BetAmounts : MinesBetStart(p, PageToken, a, gameState.serverSeed)
    \/ MinesBetUser(p)
    \/ MinesBetDebit(p)
    \/ MinesBetCreate(p)
    \/ \E b \in BetIds, m \in CashoutMultipliers : MinesCashoutStart(p, PageToken, b, m)
    \/ MinesCashoutUser(p)
    \/ MinesCashoutFindBet(p)
    \/ MinesCashoutCredit(p)
    \/ MinesCashoutSettle(p)

NextMinesGame ==
    \/ \E p \in Procs : MinesGameStep(p)
    \/ \E sh \in Shuffles : InitializeGame(sh)
    \/ \E pos \in Cells : RevealCell(pos)
    \/ \E pos \in Cells : ToggleFlag(pos)
    \/ CashOut

SpecMinesGame == InitSeeded(MaxRoleRequests) /\ [][NextMinesGame]_vars

\* The crash page on its own.
NextCrashPage ==
    \/ \E r \in RandomDraws : Mount(r)
    \/ \E r \in RandomDraws : StartNewRound(r)
    \/ Advance
    \/ Animate
    \/ PlaceBet
    \/ CashOutAll
    \/ \E v \in AutoCashouts : SetAutoCashout(v)
    \/ \E v \in CrashBetInputs : SetCrashBetAmount(v)

SpecCrashPage == InitSeeded(MaxRequests) /\ [][NextCrashPage]_vars

\* Registrations and logins on a fresh deployment, under names with and
\* without upper-case letters, a reserved name, and a password that is too
\* short.
RequestUsernames == {<<"A", "l", "i">>, <<"a", "l", "i">>, AdminUsername}
RequestPasswords == {SamplePassword, <<"p", "w">>}

NamesStep(p) ==
    \/ \E u \in RequestUsernames, pw \in RequestPasswords : RegisterStartAs(p, u, pw)
    \/ RegisterCount(p)
    \/ RegisterCreate(p)
    \/ RegisterSession(p)
    \/ \E u \in RequestUsernames, pw \in RequestPasswords : LoginStart(p, u, pw)
    \/ LoginUpdate(p)
    \/ LoginCreate(p)

NextNames == \E p \in Procs : NamesStep(p)

SpecNames == InitEmpty(MaxRequests) /\ [][NextNames]_vars

\* The three operations that can set the ban flag, next to logins of the
\* seeded player.
BanLoginStep(p) ==
    \/ \E t \in Tokens, id \in AnyUserId : BanStart(p, t, id)
    \/ BanAdmin(p)
    \/ BanTarget(p)
    \/ BanUpdate(p)
    \/ BanSessions(p)
    \/ BanLog(p)
    \/ \E t \in Tokens, id \in AnyUserId, b \in PatchBodies : PatchStart(p, t, id, b)
    \/ PatchOwner(p)
    \/ PatchTarget(p)
    \/ PatchUpdate(p)
    \/ PatchLog(p)
    \/ \E t \in Tokens, a \in BulkActions, ids \in BulkSelections : BulkStart(p, t, a, ids)
    \/ BulkActor(p)
    \/ BulkTargets(p)
    \/ BulkTx(p)
    \/ LoginStart(p, PlayerUsername(SeedPlayers), SeedPassword)
    \/ LoginUpdate(p)
    \/ LoginCreate(p)

NextBanLogin == \E p \in Procs : BanLoginStep(p)

SpecBanLogin == InitSeeded(MaxRoleRequests) /\ [][NextBanLogin]_vars

\* Gem transfers between the seeded accounts.
GemTransferStep(p) ==
    \/ \E t \in Tokens, n \in RecipientNames, a \in TransferAmounts :
          GemTransferStart(p, t, n, a)
    \/ GemTransferUser(p)
    \/ GemTransferRecipient(p)
    \/ GemTransferTx(p)

NextGemTransfer == \E p \in Procs : GemTransferStep(p)

SpecGemTransfer == InitSeeded(MaxRoleRequests) /\ [][NextGemTransfer]_vars

\* Session-gated requests of the seeded player and admin next to session
\* checks, logouts and the expiry of sessions. UnknownToken is a cookie
\* value that no session has.
UnknownToken == Len(SeedUsers) + 1
SessionTokens == Tokens \cup {UnknownToken}
SessionStep(p) ==
    \/ \E t \in SessionTokens : SessionGetStart(p, t)
    \/ SessionGetDelete(p)
    \/ SessionGetUser(p)
    \/ SessionGetUpdate(p)
    \/ \E t \in SessionTokens : Logout(p, t)
    \/ \E t \in SessionTokens : MinesBetStart(p, t, DefaultBet, NoSeed)
    \/ MinesBetUser(p)
    \/ MinesBetDebit(p)
    \/ MinesBetCreate(p)
    \/ \E t \in SessionTokens : GemTransferStart(p, t, OwnerUsername, DefaultBet)
    \/ GemTransferUser(p)
    \/ GemTransferRecipient(p)
    \/ GemTransferTx(p)
    \/ \E t \in SessionTokens : BanStart(p, t, PageUser)
    \/ BanAdmin(p)
    \/ BanTarget(p)
    \/ BanUpdate(p)
    \/ BanSessions(p)
    \/ BanLog(p)

NextSession ==
    \/ \E p \in Procs : SessionStep(p)
    \/ \E t \in Tokens : ExpireSession(t)

SpecSession == InitSeeded(MaxRoleRequests) /\ [][NextSession]_vars

\* The validator called with every combination of the three roles.
NextValidator ==
    \E p \in Procs, c \in Roles, t \in Roles, a \in Roles : ValidateCall(p, c, t, a)

SpecValidator == InitSeeded(MaxProcs) /\ [][NextValidator]_vars

\* ================================================================ claims
Quiescent == \A p \in Procs : FreeSlot(p)

\* p takes a step of its handler (a slot changes only by its own step)
Steps(p) == procs'[p] # procs[p]

RECURSIVE ProfitUpTo(_, _)
ProfitUpTo(u, n) ==
    IF n = 0 THEN 0
    ELSE ProfitUpTo(u, n - 1) + (IF bets[n].user_id = u THEN bets[n].profit ELSE 0)

\* sum of the profit column over the wager records of account u
ProfitSum(u) == ProfitUpTo(u, Len(bets))

CashoutHandlers == {"minesCashout", "crashCashout"}

\* C1: whenever a mines bet or plinko drop writes the balance, the stake does
\* not exceed the balance stored at that moment and the balance written is
\* not negative.
C1_WagerNeverOverdraws ==
    [][\A p \in Procs :
          (/\ \/ At(p, "minesBet", "debit")
              \/ At(p, "plinko", "update")
           /\ Steps(p))
          => /\ procs[p].amount <= users[procs[p].user_id].gems
             /\ users'[procs[p].user_id].gems >= 0]_vars

\* C2: once every request has been answered, each balance equals the initial
\* balance minus the accepted stakes plus the payouts, i.e. the initial balance
\* plus the profit of the account's wager records.
C2_NoLostBalanceUpdate ==
    Quiescent =>
        \A u \in UserIds : users[u].gems = SeedUsers[u].gems + ProfitSum(u)

\* C3: no two cash-out requests succeed on the same wager.
C3_AtMostOneCashoutSucceeds ==
    \A p, q \in Procs :
        (/\ p # q
         /\ procs[p].kind = "done" /\ procs[q].kind = "done"
         /\ procs[p].handler \in CashoutHandlers
         /\ procs[q].handler \in CashoutHandlers
         /\ procs[p].status = 200 /\ procs[q].status = 200)
        => procs[p].ref # procs[q].ref

\* C4: with requests served in sequence, a cash-out never reaches its balance
\* or record write on a wager that is no longer active (it is answered 400
\* before), so each wager is paid once and the balances add up.
C4_SequentialCashoutIdempotent ==
    /\ \A p \in Procs :
          (/\ procs[p].kind \in CashoutHandlers
           /\ procs[p].pc \in {"credit", "settle"})
          => bets[procs[p].bet_id].status = "active"
    /\ Quiescent =>
          \A u \in UserIds : users[u].gems = SeedUsers[u].gems + ProfitSum(u)

\* a second cash-out on a wager that was cashed out is answered 400
C4_Witness ==
    \E p \in Procs :
        /\ procs[p].kind = "done"
        /\ procs[p].handler \in CashoutHandlers
        /\ procs[p].status = 400
        /\ procs[p].ref \in 1..Len(bets)
        /\ bets[procs[p].ref].status = "won"
        /\ bets[procs[p].ref].profit > 0

\* C5: at most one account has role OWNER.
C5_AtMostOneOwner == Cardinality(Owners) <= 1

\* C6: the committing step of transferOwnership leaves from ADMIN, to OWNER
\* with to's balances raised by exactly the bonus over their values just
\* before the step, and no other account changed.
C6_TransferAddsExactBonus ==
    [][\A p \in Procs :
          (At(p, "transfer", "tx") /\ Steps(p)) =>
             LET from == procs[p].from
                 to == procs[p].to IN
             /\ users'[from].role = "ADMIN"
             /\ users'[to].role = "OWNER"
             /\ users'[to].gems = users[to].gems + InitialGems
             /\ users'[to].crystals = users[to].crystals + InitialCrystals
             /\ \A u \in UserIds \ {from, to} : users'[u] = users[u]]_vars

\* C7: when the swap of transferOwnership is applied, from is the current
\* owner and to exists, is not banned and does not hold OWNER.
C7_TransferPreconditionAtSwap ==
    [][\A p \in Procs :
          (At(p, "transfer", "tx") /\ Steps(p)) =>
             /\ IsOwner(procs[p].from)
             /\ Exists(procs[p].to)
             /\ ~users[procs[p].to].is_banned
             /\ users[procs[p].to].role # "OWNER"]_vars

\* C8: a finished transferOwnership whose swap was committed has its
\* TRANSFER_OWNERSHIP record in the admin log.
C8_CommittedTransferIsLogged ==
    \A p \in Procs :
        (/\ procs[p].kind = "done"
         /\ procs[p].handler = "transfer"
         /\ procs[p].swapped)
        => LogEntry(procs[p].from, "TRANSFER_OWNERSHIP", procs[p].ref) \in adminLog

\* C9: no ban, bulk-action or user-update request takes the OWNER role away
\* from the account that issued it.
C9_OwnerRoleOnlyByTransfer ==
    [][\A p \in Procs :
          (procs[p].kind \in {"ban", "patch", "bulk"} /\ Steps(p)) =>
             ~(/\ users[procs[p].user_id].role = "OWNER"
               /\ users'[procs[p].user_id].role # "OWNER")]_vars

\* C10: a ban, bulk-action or user-update step that changes an account
\* holding OWNER at that moment is made by an actor that holds OWNER.
C10_OwnerAccountUntouchedByOthers ==
    [][\A p \in Procs :
          (procs[p].kind \in {"ban", "patch", "bulk"} /\ Steps(p)) =>
             \A u \in UserIds :
                (users[u].role = "OWNER" /\ users'[u] # users[u])
                => users[procs[p].user_id].role = "OWNER"]_vars

Validated(p) == procs[p].kind = "done" /\ procs[p].handler = "validate"

\* C11: the validator rejects every call whose actor is ADMIN and whose
\* target account currently has role ADMIN or OWNER, whatever role is asked.
C11_AdminCannotModifyPeerOrOwner ==
    \A p \in Procs :
        (/\ Validated(p)
         /\ procs[p].actorRole = "ADMIN"
         /\ procs[p].currentRole \in {"ADMIN", "OWNER"})
        => ~procs[p].valid

\* C12: for an actor that is not OWNER the validator approves only when the
\* actor is ADMIN and the role asked for is PLAYER; a PLAYER actor is always
\* rejected.
C12_NonOwnerOnlyAssignsPlayer ==
    \A p \in Procs :
        (Validated(p) /\ procs[p].actorRole # "OWNER" /\ procs[p].valid)
        => (procs[p].actorRole = "ADMIN" /\ procs[p].targetRole = "PLAYER")

\* an ADMIN asking for ADMIN was rejected and a PLAYER actor was rejected
C12_Witness ==
    \E p, q \in Procs :
        /\ Validated(p) /\ Validated(q)
        /\ procs[p].actorRole = "ADMIN" /\ procs[p].targetRole = "ADMIN"
        /\ ~procs[p].valid
        /\ procs[q].actorRole = "PLAYER" /\ ~procs[q].valid

\* the steps of the wager handlers that write a balance or a wager record
WagerWrites(p) ==
    \/ procs[p].kind \in {"minesBet", "crashBet"} /\ procs[p].pc \in {"debit", "create"}
    \/ procs[p].kind = "plinko" /\ procs[p].pc \in {"update", "create"}
    \/ procs[p].kind \in CashoutHandlers /\ procs[p].pc \in {"credit", "settle"}

\* C13: no wager placement, plinko drop or cash-out writes a balance or a
\* wager record for an account whose ban is committed.
C13_BannedAccountNeverWagers ==
    [][\A p \in Procs :
          (WagerWrites(p) /\ Steps(p)) => ~users[procs[p].user_id].is_banned]_vars

\* p's request is answered in this step
Answers(p) == Steps(p) /\ procs'[p].kind = "done"

\* C14: when a wager request is answered, with requests served one at a time,
\* every balance equals the initial balance plus the profit of the account's
\* wager records: the balance write and the record write are both committed
\* or neither is.
C14_BalanceAndRecordCommitTogether ==
    [][\A p \in Procs :
          Answers(p) =>
             \A u \in UserIds : users'[u].gems = SeedUsers[u].gems + ProfitSum(u)']_vars

PlacementHandlers == {"minesBet", "plinko"}

GameStarted == gameState.serverSeed # NoSeed

\* the cells of the board of the page's game, and its safe cells
BoardCells == 0..(gameState.size * gameState.size - 1)
SafeCells == BoardCells \ gameState.grid

\* C16: every started grid game has 3 <= N <= 8 and 1 <= M < N*N, and its
\* board holds exactly M mine cells.
C16_StartedGameHasValidBoard ==
    GameStarted =>
        /\ gameState.size >= 3 /\ gameState.size <= 8
        /\ gameState.mines >= 1
        /\ gameState.mines < gameState.size * gameState.size
        /\ Cardinality(gameState.grid) = gameState.mines
        /\ gameState.grid \subseteq BoardCells

\* 1 / (1 - k / (N*N - M)) clamped to [1, 1000], as a fraction
ExpectedMultiplier(k, N, M) ==
    LET safe == N * N - M IN
    IF k >= safe THEN Multiplier(1000, 1) ELSE Multiplier(safe, safe - k)

SameNumber(a, b) == a.num * b.den = b.num * a.den

\* C17: while a game with a valid board is active, its multiplier is
\* 1 / (1 - k / (N*N - M)) clamped to [1, 1000] for the k safe cells revealed
\* and the N and M the game was started with.
C17_MultiplierFollowsGameBoard ==
    (/\ gameState.gameActive
     /\ gameState.mines >= 1
     /\ gameState.mines < gameState.size * gameState.size)
    => SameNumber(gameState.currentMultiplier,
                  ExpectedMultiplier(Cardinality(gameState.revealed),
                                     gameState.size, gameState.mines))

\* C19: the reveal that leaves no safe cell of the board unrevealed ends the
\* game as a win, with winnings floor(stake * 1000) (the clamped multiplier
\* for k = N*N - M).
C19_LastSafeCellWins ==
    [][(/\ gameState.gameActive
        /\ gameState'.revealed # gameState.revealed
        /\ gameState'.revealed = SafeCells)
       => /\ ~gameState'.gameActive
          /\ gameState'.gameOver
          /\ gameState'.won
          /\ toast'.winnings = gameState.betAmount * 1000]_vars

\* the mines wagers placed with the seed of the page's game
GameWagers ==
    {b \in 1..Len(bets) : /\ bets[b].game = "mines"
                          /\ GameStarted
                          /\ bets[b].server_seed = gameState.serverSeed}

GameLost == gameState.gameOver /\ ~gameState.won

\* C18: once a mine of the page's game is revealed, reveals, flags and the
\* cash-out button leave the game as it is, and no cash-out request credits
\* a balance for a wager of that game.
C18_LostGameIsFinalAndUnpaid ==
    [][GameLost =>
          /\ gameState'.serverSeed = gameState.serverSeed
                => (/\ gameState'.revealed = gameState.revealed
                    /\ gameState'.flagged = gameState.flagged
                    /\ GameLost')
          /\ \A p \in Procs :
                (At(p, "minesCashout", "credit") /\ Steps(p))
                => procs[p].bet_id \notin GameWagers]_vars

\* C20: a cash-out request that credits a wager of the page's game, before a
\* mine is hit, credits floor(stake * m) with m the multiplier of the game's
\* revealed safe cells, grid size and mine count.
C20_CashoutPaysGameMultiplier ==
    [][\A p \in Procs :
          (/\ At(p, "minesCashout", "credit") /\ Steps(p)
           /\ procs[p].bet_id \in GameWagers
           /\ ~GameLost)
          => users'[procs[p].user_id].gems - users[procs[p].user_id].gems
               = Winnings(bets[procs[p].bet_id].amount,
                          ExpectedMultiplier(Cardinality(gameState.revealed),
                                             gameState.size, gameState.mines))]_vars

\* C21: the payout of every accepted plinko drop is floor(stake * m) for an
\* entry m of the payout tables (a risk tier and a landing slot 0..8).
C21_PlinkoPaysTableMultiplier ==
    [][\A p \in Procs :
          (At(p, "plinko", "update") /\ Steps(p)) =>
             \E risk \in DOMAIN PAYOUT_TABLES, slot \in 0..8 :
                procs[p].profit + procs[p].amount =
                   Winnings(procs[p].amount, PAYOUT_TABLES[risk][slot + 1])]_vars

\* the bets of the page that the step marks as cashed out
NewlyCashedOut ==
    {b \in crashPage'.myBets :
        /\ b.cashedOut
        /\ \A old \in crashPage.myBets : old.id = b.id => ~old.cashedOut}

\* C22: a bet is cashed out only while its round is active, and the cash-out
\* records and pays floor(stake * multiplier) for the multiplier the round
\* has at the cash-out.
C22_CashOutPaysMultiplierAtCashOut ==
    [][\A b \in NewlyCashedOut :
          /\ crashPage.currentRound.status = "active"
          /\ b.cashoutMultiplier = crashPage'.currentRound.multiplier
          /\ Toast("Cashed Out!",
                   Winnings(b.amount,
                            Multiplier(crashPage'.currentRound.multiplier, 100)))
                \in crashPage'.shown]_vars

\* the documented generator: the drawn value times (1 - 0.018), clamped to
\* [1.01, maxMultiplier], in hundredths
EdgePerMille == 18
MinCrashPoint == 101
ClampCrashPoint(x) ==
    IF x < MinCrashPoint THEN MinCrashPoint
    ELSE IF x > 100 * MaxMultiplier THEN 100 * MaxMultiplier ELSE x
EdgedCrashPoints ==
    {ClampCrashPoint(((100 + r * CrashRange) * (1000 - EdgePerMille)) \div 1000) :
        r \in RandomDraws}

\* C23: the crash point of every round is a drawn value reduced by the
\* house edge and clamped, so it lies in [1.01, maxMultiplier].
C23_CrashPointEdgedAndClamped ==
    crashPage.currentRound.status # "none" =>
        /\ crashPage.currentRound.crashPoint \in EdgedCrashPoints
        /\ crashPage.currentRound.crashPoint >= MinCrashPoint
        /\ crashPage.currentRound.crashPoint <= 100 * MaxMultiplier

\* C29: a round that is active stays the current round until it crashes:
\* no step replaces an active round.
C29_ActiveRoundNeverReplaced ==
    [][crashPage.currentRound.status = "active" =>
          crashPage'.currentRound.id = crashPage.currentRound.id]_vars

\* C26: no step changes a field of a wager whose status is not "active",
\* and no step removes a wager record.
C26_SettledWagerNeverChanges ==
    [][/\ Len(bets') >= Len(bets)
       /\ \A b \in 1..Len(bets) :
             bets[b].status # "active" => bets'[b] = bets[b]]_vars

\* C30: a login that directly follows a successful registration in the same
\* slot, with the same name and password, for an account that is not banned,
\* passes the checks of the login handler for the registered account.
C30_LoginAcceptsRegisteredName ==
    [][\A p \in Procs :
          (/\ procs[p].kind = "done"
           /\ procs[p].handler = "register"
           /\ procs[p].status = 200
           /\ ~users[procs[p].ref].is_banned
           /\ procs'[p] # procs[p]
           /\ \/ procs'[p].kind = "login"
              \/ procs'[p].kind = "done" /\ procs'[p].handler = "login"
           /\ procs'[p].username = procs[p].username
           /\ procs'[p].password = procs[p].password)
          => /\ procs'[p].kind = "login"
             /\ procs'[p].user_id = procs[p].ref]_vars

\* the accounts whose ban flag the request of slot p sets
BanTargets(p) ==
    LET r == procs[p] IN
    CASE r.kind = "ban" -> {r.id}
      [] r.kind = "patch" ->
            IF "is_banned" \in DOMAIN r.body /\ r.body.is_banned THEN {r.id} ELSE {}
      [] r.kind = "bulk" /\ r.pc = "tx" ->
            IF r.action = "ban" THEN r.validTargets ELSE {}
      [] OTHER -> {}

\* C27: when a request that sets the ban flag is answered 200, every account
\* it banned that is still banned has no session; and no session is ever
\* created for an account that is banned.
C27_BannedAccountHasNoSession ==
    [][/\ \A p \in Procs :
             (procs'[p] # procs[p] /\ procs'[p].kind = "done" /\ procs'[p].status = 200)
             => \A u \in BanTargets(p) :
                   users'[u].is_banned => \A s \in sessions' : s.user_id # u
       /\ \A s \in sessions' \ sessions : ~users'[s.user_id].is_banned]_vars

\* C28: the committing step of a gem transfer moves a positive amount to a
\* different account: the sender loses exactly amount, the recipient gains
\* exactly amount - floor(amount * 0.05), and neither balance is negative.
C28_TransferMovesPositiveAmount ==
    [][\A p \in Procs :
          (At(p, "gemTransfer", "tx") /\ Steps(p)) =>
             LET from == procs[p].user_id
                 to == procs[p].to
                 amount == procs[p].amount IN
             /\ amount > 0
             /\ from # to
             /\ users'[from].gems = users[from].gems - amount
             /\ users'[to].gems = users[to].gems + amount - Tax(amount)
             /\ users'[from].gems >= 0
             /\ users'[to].gems >= 0]_vars

\* the cookie of the request that slot p holds or has answered
RequestToken(r) == IF r.kind = "done" THEN r.ref ELSE r.token
SessionGated == {"session", "minesBet", "gemTransfer", "ban"}
HandlerOf(r) == IF r.kind = "done" THEN r.handler ELSE r.kind
LiveSession(token) ==
    \E s \in sessions : s.session_token = token /\ ~s.expired
TablesUnchanged == UNCHANGED <<users, bets, adminLog>>

\* C24: a request of a session-gated handler that arrives with a cookie
\* that is missing, unknown or expired changes no account, wager or log, and
\* is answered 401, at once or after the session route has deleted the
\* expired session.
C24_InvalidSessionRejected ==
    [][\A p \in Procs :
          /\ (/\ FreeSlot(p)
              /\ procs'[p] # procs[p]
              /\ HandlerOf(procs'[p]) \in SessionGated
              /\ ~LiveSession(RequestToken(procs'[p])))
             => /\ TablesUnchanged
                /\ \/ procs'[p].kind = "done" /\ procs'[p].status = 401
                   \/ procs'[p].kind = "session" /\ procs'[p].pc = "delete"
          /\ (At(p, "session", "delete") /\ Steps(p))
             => /\ TablesUnchanged
                /\ procs'[p].status = 401]_vars

\* C25: when a logout is answered, or a handler answers 401 to a request
\* whose session exists and has expired, no session with the token of the
\* request is left.
C25_RejectedSessionIsRemoved ==
    [][\A p \in Procs :
          (/\ Steps(p)
           /\ procs'[p].kind = "done"
           /\ \/ procs'[p].handler = "logout"
              \/ /\ procs'[p].status = 401
                 /\ \E s \in sessions :
                       s.session_token = procs'[p].ref /\ s.expired)
          => \A s \in sessions' : s.session_token # procs'[p].ref]_vars
====
